---- MODULE Spec2Model ----
(***************************************************************************)
(* Model of scripts/compute_route_exposure.py (v1, log-fetch exposure)     *)
(* and scripts/compute_route_exposure_v2.py (v2, shelter signature).       *)
(*                                                                         *)
(* Numbers.  Lengths are integers in metres; a value the code holds in km  *)
(* (dist / 1000.0) is held here as the same length in metres, so           *)
(* "dist_km <= SHELTER_THRESHOLD_KM" is a comparison of metres.  Scores    *)
(* (round(x, 3)) are integers in thousandths, reported distances           *)
(* (round(x, 2) km) are integers in units of 10 m.  A planar point is a    *)
(* record [x, y, den] standing for (x/den, y/den) metres, so that the      *)
(* sampler's offsets (i + 0.5)/n are exact.  sin and cos of the sixteen    *)
(* bearings are held in thousandths.                                       *)
(*                                                                         *)
(* The ray range and the shelter threshold are scaled down to a few ray    *)
(* steps (MaxRaySteps, ShelterSteps, MaxFetchSteps); the step sizes and    *)
(* the sample counts are the program's.                                    *)
(*                                                                         *)
(* Arithmetic is exact, except where a comparison of the code depends on   *)
(* the rounding of binary floating point: the margin test of               *)
(* validate_exposure_ordering (diff_ge_margin) and the rounding of a       *)
(* halfway median in v2 (round_median) follow the doubles.                 *)
(* Elsewhere sin(pi) is 0 and round() breaks ties on the decimal value.    *)
(* haversine_km and wgs84_to_utm are not computed: the great-circle        *)
(* distances of the validated pairs are an input (dist_km), the planar     *)
(* port coordinates a fixed table (PORTS).                                 *)
(***************************************************************************)
EXTENDS Integers, Sequences, FiniteSets, TLC

VARIABLES
    pc,          \* position of main(): see the actions below
    dist_km,     \* haversine_km of every pair of EXPECTED_DISTANCES (v2)
    land_geom,   \* main's land mask: [status, geom], geom a set of open rectangles
    results,     \* main's list of signatures, in ROUTES order
    artifact,    \* OUTPUT_FILE: [status |-> "absent" | "stale"], or what was written
    exit_code,   \* "running", or how the process ended
    checks,      \* what each validator returned so far
    args,        \* arguments of the function under test (function-level specifications)
    ret          \* its outcome: [status |-> "none"] before the call

vars == <<pc, dist_km, land_geom, results, artifact, exit_code, checks, args, ret>>

(***************************************************************************)
(* Bounds                                                                  *)
(***************************************************************************)
MaxRaySteps == 4     \* v2 ray range, in steps of RAY_STEP_M
ShelterSteps == 2    \* v2 shelter threshold, in steps of RAY_STEP_M
MaxFetchSteps == 3   \* v1 ray range, in steps of RAY_STEP_M_V1
MaxStep == 3         \* largest step size given to the ray caster under test
MaxRange == 5        \* largest range given to the ray caster under test
MaxN == 3            \* largest sample count given to the sampler under test
MaxCoord == 2        \* endpoints of the sampler under test lie in 0..MaxCoord

(***************************************************************************)
(* Configuration                                                           *)
(***************************************************************************)
SAMPLE_POINTS_PER_ROUTE == 50
RAY_STEP_M == 50
SAMPLE_POINTS_PER_ROUTE_V1 == 10
RAY_STEP_M_V1 == 100

MAX_RAY_M == MaxRaySteps * RAY_STEP_M
SHELTER_THRESHOLD_M == ShelterSteps * RAY_STEP_M
MAX_FETCH_M == MaxFetchSteps * RAY_STEP_M_V1

\* COMPASS_DIRECTIONS in insertion order; deg10 is the bearing in tenths of a degree
COMPASS_DIRECTIONS ==
    << [name |-> "N",   deg10 |-> 0],    [name |-> "NNE", deg10 |-> 225],
       [name |-> "NE",  deg10 |-> 450],  [name |-> "ENE", deg10 |-> 675],
       [name |-> "E",   deg10 |-> 900],  [name |-> "ESE", deg10 |-> 1125],
       [name |-> "SE",  deg10 |-> 1350], [name |-> "SSE", deg10 |-> 1575],
       [name |-> "S",   deg10 |-> 1800], [name |-> "SSW", deg10 |-> 2025],
       [name |-> "SW",  deg10 |-> 2250], [name |-> "WSW", deg10 |-> 2475],
       [name |-> "W",   deg10 |-> 2700], [name |-> "WNW", deg10 |-> 2925],
       [name |-> "NW",  deg10 |-> 3150], [name |-> "NNW", deg10 |-> 3375] >>

DirNames == {COMPASS_DIRECTIONS[i].name : i \in 1..Len(COMPASS_DIRECTIONS)}
Bearings == {COMPASS_DIRECTIONS[i].deg10 : i \in 1..Len(COMPASS_DIRECTIONS)}

(***************************************************************************)
(* Geometry                                                                *)
(***************************************************************************)
\* math.sin(math.radians(d)) in thousandths, for d a multiple of 22.5 degrees
SinTable == << 0, 383, 707, 924, 1000, 924, 707, 383,
               0, -383, -707, -924, -1000, -924, -707, -383 >>

\* math.cos taken for math.sin: the east component computed as the north one
math_sin_as_cos(deg10) ==
    << 1000, 924, 707, 383, 0, -383, -707, -924,
       -1000, -924, -707, -383, 0, 383, 707, 924 >>[((deg10 \div 225) % 16) + 1]


math_sin(deg10) == SinTable[((deg10 \div 225) % 16) + 1]
math_cos(deg10) == SinTable[(((deg10 \div 225) + 4) % 16) + 1]

\* land_geom.contains(Point(x, y)): the point lies in the interior of the
\* land; tx, ty are the coordinates times scale
contains(land, tx, ty, scale) ==
    \E r \in land : /\ r.x0 * scale < tx /\ tx < r.x1 * scale
                    /\ r.y0 * scale < ty /\ ty < r.y1 * scale

\* np.arange as if the loop started at the origin point: 0, step, 2*step, ...
np_arange_from_zero(start, stop, step) ==
    [k \in 1..((stop + step - 1) \div step) |-> (k - 1) * step]

\* np.arange(start, stop, step) for integers: ceil((stop - start) / step) values
np_arange(start, stop, step) ==
    [k \in 1..((stop - start + step - 1) \div step) |-> start + (k - 1) * step]

(***************************************************************************)
(* Ray caster                                                              *)
(***************************************************************************)
\* The for loop of cast_ray_to_land / compute_fetch_distance from its k-th
\* iteration on: the distance returned and the increments tested, in order
RECURSIVE RayLoop(_, _, _, _, _, _, _)
RayLoop(k, dists, point, dx, dy, land, max_distance_m) ==
    IF k > Len(dists)
    THEN [dist |-> max_distance_m, tested |-> << >>]
    ELSE LET dist == dists[k]
             test_x == point.x * 1000 + dx * dist * point.den
             test_y == point.y * 1000 + dy * dist * point.den
         IN IF contains(land, test_x, test_y, 1000 * point.den)
            THEN [dist |-> dist, tested |-> << dist >>]
            ELSE LET rest == RayLoop(k + 1, dists, point, dx, dy, land, max_distance_m)
                 IN [dist |-> rest.dist, tested |-> << dist >> \o rest.tested]

RayTrace(point, deg10, land, max_distance_m, step_m) ==
    RayLoop(1, np_arange(step_m, max_distance_m + step_m, step_m), point,
            math_sin(deg10), math_cos(deg10), land, max_distance_m)

\* v2 cast_ray_to_land; step_m is the module's RAY_STEP_M
cast_ray_to_land(point, deg10, land, max_distance_m, step_m) ==
    RayTrace(point, deg10, land, max_distance_m, step_m).dist

\* v1 compute_fetch_distance; step_m is the module's RAY_STEP_M
compute_fetch_distance(point, deg10, land, max_distance_m, step_m) ==
    RayTrace(point, deg10, land, max_distance_m, step_m).dist

(***************************************************************************)
(* Function-level specification: the ray caster                            *)
(***************************************************************************)
Idle ==
    /\ pc = "idle" /\ dist_km = << >> /\ land_geom = [status |-> "unset"]
    /\ results = << >> /\ artifact = [status |-> "absent"]
    /\ exit_code = "running" /\ checks = [distances |-> "none", ordering |-> "none"]

\* bands of land across the ray's path, within reach of the increments tested
RayExtent == MaxRange + MaxStep
RayLands ==
    {{}} \cup
    {{[x0 |-> -RayExtent - 1, x1 |-> RayExtent + 1, y0 |-> a, y1 |-> b]} :
        <<a, b>> \in {<<a, b>> \in (-1..RayExtent) \X (0..RayExtent + 1) : a < b}}
    \cup
    {{[x0 |-> a, x1 |-> a + 2, y0 |-> -RayExtent - 1, y1 |-> RayExtent + 1]} :
        a \in 0..RayExtent}

RayBearings == {0, 900, 1800}

InitRay ==
    /\ Idle
    /\ args \in [fn : {"cast_ray_to_land", "compute_fetch_distance"},
                 point : {[x |-> 0, y |-> 0, den |-> 1]},
                 deg10 : RayBearings,
                 land : RayLands,
                 max_distance_m : 1..MaxRange,
                 step_m : 1..MaxStep]
    /\ ret = [status |-> "none"]

CastRay ==
    /\ ret.status = "none"
    /\ args.fn = "cast_ray_to_land"
    /\ ret' = [status |-> "returned",
               value |-> cast_ray_to_land(args.point, args.deg10, args.land,
                                          args.max_distance_m, args.step_m),
               tested |-> RayTrace(args.point, args.deg10, args.land,
                                   args.max_distance_m, args.step_m).tested]
    /\ UNCHANGED <<pc, dist_km, land_geom, results, artifact, exit_code, checks, args>>

ComputeFetch ==
    /\ ret.status = "none"
    /\ args.fn = "compute_fetch_distance"
    /\ ret' = [status |-> "returned",
               value |-> compute_fetch_distance(args.point, args.deg10, args.land,
                                                args.max_distance_m, args.step_m),
               tested |-> RayTrace(args.point, args.deg10, args.land,
                                   args.max_distance_m, args.step_m).tested]
    /\ UNCHANGED <<pc, dist_km, land_geom, results, artifact, exit_code, checks, args>>

NextRay == CastRay \/ ComputeFetch

SpecRay == InitRay /\ [][NextRay]_vars

\* the land mask contains the point at cumulative distance d along the ray of args
LandAt(d) ==
    contains(args.land,
             args.point.x * 1000 + math_sin(args.deg10) * d * args.point.den,
             args.point.y * 1000 + math_cos(args.deg10) * d * args.point.den,
             1000 * args.point.den)

\* the increments k * step within the range that the land mask contains
HitsWithinRange ==
    {k \in 1..RayExtent : k * args.step_m <= args.max_distance_m /\ LandAt(k * args.step_m)}

\* C5: the caster tests step, 2*step, ... in increasing order, never the
\* origin, and returns the distance of the first contained increment; when no
\* increment at a distance up to and including the range is contained, it
\* returns exactly the range.
C5_FirstHitOrRange ==
    ret.status = "returned" =>
        /\ \A i \in 1..Len(ret.tested) : ret.tested[i] = i * args.step_m
        /\ IF HitsWithinRange = {}
           THEN ret.value = args.max_distance_m
           ELSE \E k \in HitsWithinRange :
                    /\ ret.value = k * args.step_m
                    /\ \A j \in HitsWithinRange : k <= j

\* C6 as stated: the caster never returns less than one step size, for every
\* positive step size and every positive range.
C6_AtLeastOneStep ==
    ret.status = "returned" => ret.value >= args.step_m

\* C6 amended: when the range is at least one step size, the caster never
\* returns less than one step size.
C6_AtLeastOneStepInRange ==
    (ret.status = "returned" /\ args.max_distance_m >= args.step_m) =>
        ret.value >= args.step_m

\* a hit at the very first increment, with the range at least one step
C6_Witness ==
    /\ ret.status = "returned"
    /\ args.max_distance_m > args.step_m
    /\ LandAt(args.step_m)
    /\ ret.value = args.step_m

(***************************************************************************)
(* Route sampler                                                           *)
(***************************************************************************)
\* the sampler without the half-interval offset: t = i / n_points
sample_route_points_uncentred(origin, dest, n_points) ==
    [k \in 1..n_points |->
        LET i == k - 1
        IN [x |-> 2 * n_points * origin.x + 2 * i * (dest.x - origin.x),
            y |-> 2 * n_points * origin.y + 2 * i * (dest.y - origin.y),
            den |-> 2 * n_points]]

\* sample_route_points (identical in v1 and v2), on the planar endpoints
\* (x1, y1), (x2, y2) that wgs84_to_utm gives for origin and dest.  The i-th
\* point x1 + t * (x2 - x1), t = (i + 0.5) / n_points, is held over the
\* denominator 2 * n_points.
sample_route_points(origin, dest, n_points) ==
    [k \in 1..n_points |->
        LET i == k - 1
        IN [x |-> 2 * n_points * origin.x + (2 * i + 1) * (dest.x - origin.x),
            y |-> 2 * n_points * origin.y + (2 * i + 1) * (dest.y - origin.y),
            den |-> 2 * n_points]]

\* two planar points are the same point
SamePoint(p, q) == p.x * q.den = q.x * p.den /\ p.y * q.den = q.y * p.den

(***************************************************************************)
(* Function-level specification: the route sampler                         *)
(***************************************************************************)
SampleEndpoints == {[x |-> a, y |-> b, den |-> 1] : a \in 0..MaxCoord, b \in 0..MaxCoord}

InitSample ==
    /\ Idle
    /\ args \in [fn : {"sample_route_points"},
                 origin : SampleEndpoints,
                 dest : SampleEndpoints,
                 n_points : 0..MaxN]
    /\ ret = [status |-> "none"]

SampleRoutePoints ==
    /\ ret.status = "none"
    /\ args.fn = "sample_route_points"
    /\ ret' = [status |-> "returned",
               value |-> sample_route_points(args.origin, args.dest, args.n_points)]
    /\ UNCHANGED <<pc, dist_km, land_geom, results, artifact, exit_code, checks, args>>

NextSample == SampleRoutePoints

SpecSample == InitSample /\ [][NextSample]_vars

\* the k-th returned point lies at offset (k - 1 + 0.5) / n on the segment
AtCentredOffset(k) ==
    LET p == ret.value[k]
        n == args.n_points
    IN /\ 2 * n * p.x = p.den * (2 * n * args.origin.x + (2 * k - 1) * (args.dest.x - args.origin.x))
       /\ 2 * n * p.y = p.den * (2 * n * args.origin.y + (2 * k - 1) * (args.dest.y - args.origin.y))

\* C7 as stated: for every pair of endpoints and every n >= 1 the sampler
\* returns n points, the i-th at offset (i + 0.5)/n, none of them equal to
\* the origin or the destination.
C7_CentredSamples ==
    (ret.status = "returned" /\ args.n_points >= 1) =>
        /\ Len(ret.value) = args.n_points
        /\ \A k \in 1..Len(ret.value) :
              /\ AtCentredOffset(k)
              /\ ~SamePoint(ret.value[k], args.origin)
              /\ ~SamePoint(ret.value[k], args.dest)

\* C7 amended: for every n >= 1 the sampler returns n points, the i-th at
\* offset (i + 0.5)/n; when origin and destination are different points,
\* none of the returned points equals the origin or the destination.
C7_CentredSamplesDistinct ==
    (ret.status = "returned" /\ args.n_points >= 1) =>
        /\ Len(ret.value) = args.n_points
        /\ \A k \in 1..Len(ret.value) :
              /\ AtCentredOffset(k)
              /\ ~SamePoint(args.origin, args.dest) =>
                    /\ ~SamePoint(ret.value[k], args.origin)
                    /\ ~SamePoint(ret.value[k], args.dest)

\* several points sampled between two different endpoints
C7_Witness ==
    /\ ret.status = "returned"
    /\ args.n_points >= 2
    /\ ~SamePoint(args.origin, args.dest)
    /\ Len(ret.value) = args.n_points

\* C8: the sampler called with n = 0 ends in an error rather than returning
\* a point sequence.
C8_ZeroSamplesIsError ==
    (ret.status # "none" /\ args.n_points = 0) => ret.status = "error"

(***************************************************************************)
(* Static tables                                                           *)
(***************************************************************************)
\* PORTS after wgs84_to_utm: planar metres.  The five ports keep their
\* relative positions, drawn at 10 m to the km so that the scaled ray range
\* spans the same share of a route as the program's.
PORTS ==
    ("woods-hole"     :> [x |-> 100, y |-> 400, den |-> 1]) @@
    ("hyannis"        :> [x |-> 423, y |-> 525, den |-> 1]) @@
    ("vineyard-haven" :> [x |-> 155, y |-> 322, den |-> 1]) @@
    ("oak-bluffs"     :> [x |-> 194, y |-> 326, den |-> 1]) @@
    ("nantucket"      :> [x |-> 576, y |-> 133, den |-> 1])

ROUTES ==
    << [route_id |-> "wh-vh-ssa",  origin |-> "woods-hole",     dest |-> "vineyard-haven"],
       [route_id |-> "vh-wh-ssa",  origin |-> "vineyard-haven", dest |-> "woods-hole"],
       [route_id |-> "wh-ob-ssa",  origin |-> "woods-hole",     dest |-> "oak-bluffs"],
       [route_id |-> "ob-wh-ssa",  origin |-> "oak-bluffs",     dest |-> "woods-hole"],
       [route_id |-> "hy-nan-ssa", origin |-> "hyannis",        dest |-> "nantucket"],
       [route_id |-> "nan-hy-ssa", origin |-> "nantucket",      dest |-> "hyannis"],
       [route_id |-> "hy-nan-hlc", origin |-> "hyannis",        dest |-> "nantucket"],
       [route_id |-> "nan-hy-hlc", origin |-> "nantucket",      dest |-> "hyannis"],
       [route_id |-> "hy-vh-hlc",  origin |-> "hyannis",        dest |-> "vineyard-haven"],
       [route_id |-> "vh-hy-hlc",  origin |-> "vineyard-haven", dest |-> "hyannis"] >>

(***************************************************************************)
(* Numeric helpers                                                         *)
(***************************************************************************)
\* round(num / den, 0) for num >= 0, den > 0: Python's round, ties to even
py_round(num, den) ==
    LET q == num \div den
        r == num % den
    IN IF 2 * r < den THEN q
       ELSE IF 2 * r > den THEN q + 1
       ELSE IF q % 2 = 0 THEN q ELSE q + 1

\* sum(flags): the number of True entries of a list of booleans
py_sum(flags) == Cardinality({k \in 1..Len(flags) : flags[k]})

\* the k-th smallest entry of a non-empty list
KthSmallest(xs, k) ==
    CHOOSE v \in {xs[j] : j \in 1..Len(xs)} :
        /\ Cardinality({j \in 1..Len(xs) : xs[j] < v}) < k
        /\ k <= Cardinality({j \in 1..Len(xs) : xs[j] <= v})

\* np.min taken for np.median, doubled: the nearest land of any sample
np_min2(xs) == 2 * KthSmallest(xs, 1)

\* np.median(xs), doubled: the middle entry of the sorted list, or the mean
\* of the two middle entries when the length is even
np_median2(xs) ==
    LET n == Len(xs)
    IN IF n % 2 = 1
       THEN 2 * KthSmallest(xs, (n + 1) \div 2)
       ELSE KthSmallest(xs, n \div 2) + KthSmallest(xs, n \div 2 + 1)

\* the sum of the values of a dict, over the keys in COMPASS_DIRECTIONS order
RECURSIVE SumValues(_, _)
SumValues(d, k) ==
    IF k = 0 THEN 0
    ELSE SumValues(d, k - 1) +
         (IF COMPASS_DIRECTIONS[k].name \in DOMAIN d THEN d[COMPASS_DIRECTIONS[k].name] ELSE 0)

\* round(float(np.mean(list(d.values()))), 3), in thousandths
mean_rounded(d) == py_round(SumValues(d, Len(COMPASS_DIRECTIONS)), Cardinality(DOMAIN d))

\* d.items(): the (key, value) pairs in insertion order, which is the order
\* of COMPASS_DIRECTIONS since every key is inserted once, in that order
items(d) ==
    LET idx == {i \in 1..Len(COMPASS_DIRECTIONS) : COMPASS_DIRECTIONS[i].name \in DOMAIN d}
        nth(k) == CHOOSE i \in idx : Cardinality({j \in idx : j < i}) = k - 1
    IN [k \in 1..Cardinality(idx) |->
            [name |-> COMPASS_DIRECTIONS[nth(k)].name,
             value |-> d[COMPASS_DIRECTIONS[nth(k)].name]]]

\* the sort without reverse=True: ascending by value
RECURSIVE sorted_asc(_, _)
sorted_asc(its, k) ==
    IF k = 0 THEN << >>
    ELSE LET done == sorted_asc(its, k - 1)
             x == its[k]
             pos == Cardinality({j \in 1..Len(done) : done[j].value <= x.value})
         IN SubSeq(done, 1, pos) \o << x >> \o SubSeq(done, pos + 1, Len(done))

\* sorted(its, key=lambda x: x[1], reverse=True) restricted to the first k
\* items: a stable sort, so equal values keep their order in its
RECURSIVE sorted_desc(_, _)
sorted_desc(its, k) ==
    IF k = 0 THEN << >>
    ELSE LET done == sorted_desc(its, k - 1)
             x == its[k]
             pos == Cardinality({j \in 1..Len(done) : done[j].value >= x.value})
         IN SubSeq(done, 1, pos) \o << x >> \o SubSeq(done, pos + 1, Len(done))

\* [d[0] for d in sorted_dirs[:3]]
top_three(d) ==
    LET sorted_dirs == sorted_desc(items(d), Len(items(d)))
    IN [k \in 1..(IF Len(sorted_dirs) < 3 THEN Len(sorted_dirs) ELSE 3) |-> sorted_dirs[k].name]

\* 10000 * math.log(x + 1) for x = x4 / 10000 < 1, by the series of ln(1 + x)
math_log1p(x4) ==
    LET x2 == (x4 * x4) \div 10000
        x3 == (x2 * x4) \div 10000
        x4th == (x3 * x4) \div 10000
        x5 == (x4th * x4) \div 10000
        x6 == (x5 * x4) \div 10000
    IN x4 - x2 \div 2 + x3 \div 3 - x4th \div 4 + x5 \div 5 - x6 \div 6

(***************************************************************************)
(* v2: shelter signature                                                   *)
(***************************************************************************)
\* the classification with a strict comparison
is_sheltered_strict(dist) == dist < SHELTER_THRESHOLD_M

\* the classification with the comparison turned round
is_sheltered_inverted(dist) == dist >= SHELTER_THRESHOLD_M

\* is_sheltered = dist_km <= SHELTER_THRESHOLD_KM
is_sheltered(dist) == dist <= SHELTER_THRESHOLD_M

\* the ratio without the division by the sample count: 1.0 - sum(sheltered_flags)
shelter_ratio_undivided(sheltered_flags) ==
    1000 - 1000 * py_sum(sheltered_flags)

\* round(1.0 - (sum(sheltered_flags) / len(sheltered_flags)), 3), in thousandths
shelter_ratio(sheltered_flags) ==
    py_round(1000 * (Len(sheltered_flags) - py_sum(sheltered_flags)), Len(sheltered_flags))

\* round(float(np.median([min(d, MAX_RAY_KM) for d in distances])), 2), in units of 10 m
\* the pairs <<i, k>> of middle distances, in ray steps, whose mean
\* (i * 0.05 + k * 0.05) / 2 km lies halfway between two hundredths and is
\* taken upwards by round(..., 2) in double arithmetic; the other halfway
\* pairs are taken downwards. Pairs up to 8 steps.
MedianTieRoundsUp ==
    {<<1, 2>>, <<1, 8>>, <<3, 8>>, <<4, 5>>, <<4, 7>>, <<5, 6>>, <<5, 8>>, <<7, 8>>}

\* round(effective_fetch, 2) in units of 10 m, for the median of a list
\* whose two middle entries are lo and hi metres
round_median(lo, hi) ==
    IF (lo + hi) % 20 = 10
    THEN (lo + hi) \div 20
         + (IF <<lo \div RAY_STEP_M, hi \div RAY_STEP_M>> \in MedianTieRoundsUp THEN 1 ELSE 0)
    ELSE py_round(lo + hi, 20)

\* the median taken of the distances capped at the shelter threshold
effective_fetch_capped_at_threshold(intersection_distances) ==
    LET capped_distances ==
            [k \in 1..Len(intersection_distances) |->
                IF intersection_distances[k] < SHELTER_THRESHOLD_M
                THEN intersection_distances[k] ELSE SHELTER_THRESHOLD_M]
    IN py_round(np_median2(capped_distances), 20)

\* round(float(np.median(capped_distances)), 2) in units of 10 m
effective_fetch(intersection_distances) ==
    LET capped_distances ==
            [k \in 1..Len(intersection_distances) |->
                IF intersection_distances[k] < MAX_RAY_M
                THEN intersection_distances[k] ELSE MAX_RAY_M]
        n == Len(capped_distances)
        lo == KthSmallest(capped_distances, (n + 1) \div 2)
        hi == KthSmallest(capped_distances, n \div 2 + 1)
    IN IF lo + hi = np_median2(capped_distances)
       THEN round_median(lo, hi)
       ELSE py_round(np_median2(capped_distances), 20)

\* intersection_distances after the first k passes of "for point in sample_points"
RECURSIVE IntersectionDistances(_, _, _, _)
IntersectionDistances(k, sample_points, deg10, land) ==
    IF k = 0 THEN << >>
    ELSE Append(IntersectionDistances(k - 1, sample_points, deg10, land),
                cast_ray_to_land(sample_points[k], deg10, land, MAX_RAY_M, RAY_STEP_M))

\* the first k passes of the loop over COMPASS_DIRECTIONS.items()
RECURSIVE ShelterLoop(_, _, _)
ShelterLoop(k, sample_points, land) ==
    IF k = 0
    THEN [shelter_ratio_by_dir |-> << >>, effective_fetch_by_dir |-> << >>]
    ELSE LET prev == ShelterLoop(k - 1, sample_points, land)
             dir == COMPASS_DIRECTIONS[k]
             intersection_distances ==
                 IntersectionDistances(Len(sample_points), sample_points, dir.deg10, land)
             sheltered_flags ==
                 [p \in 1..Len(sample_points) |-> is_sheltered(intersection_distances[p])]
         IN [shelter_ratio_by_dir |->
                 (dir.name :> shelter_ratio(sheltered_flags)) @@ prev.shelter_ratio_by_dir,
             effective_fetch_by_dir |->
                 (dir.name :> effective_fetch(intersection_distances)) @@ prev.effective_fetch_by_dir]

\* the body of compute_shelter_signature once origin and dest are looked up
ShelterSignatureOf(route_id, origin_slug, dest_slug, origin, dest, land) ==
    LET sample_points == sample_route_points(origin, dest, SAMPLE_POINTS_PER_ROUTE)
        by_dir == ShelterLoop(Len(COMPASS_DIRECTIONS), sample_points, land)
    IN [route_id |-> route_id,
        origin_port |-> origin_slug,
        destination_port |-> dest_slug,
        shelter_ratio_by_dir |-> by_dir.shelter_ratio_by_dir,
        effective_open_fetch_km_by_dir |-> by_dir.effective_fetch_by_dir,
        mean_shelter_ratio |-> mean_rounded(by_dir.shelter_ratio_by_dir),
        top_exposure_dirs |-> top_three(by_dir.shelter_ratio_by_dir)]

compute_shelter_signature(route_id, origin_slug, dest_slug, land) ==
    ShelterSignatureOf(route_id, origin_slug, dest_slug,
                       PORTS[origin_slug], PORTS[dest_slug], land)

(***************************************************************************)
(* v1: log-fetch exposure                                                  *)
(***************************************************************************)
\* round(max(0.0, min(1.0, log(median_fetch + 1) / log(MAX_FETCH_KM + 1))), 3),
\* in thousandths, from the doubled median in metres
log_exposure(median2) ==
    LET num == math_log1p(median2 * 5)
        den == math_log1p(MAX_FETCH_M * 10)
    IN IF num >= den THEN 1000
       ELSE IF num <= 0 THEN 0
       ELSE py_round(1000 * num, den)

\* fetch_distances after the first k passes of "for point in sample_points"
RECURSIVE FetchDistances(_, _, _, _)
FetchDistances(k, sample_points, deg10, land) ==
    IF k = 0 THEN << >>
    ELSE Append(FetchDistances(k - 1, sample_points, deg10, land),
                compute_fetch_distance(sample_points[k], deg10, land,
                                       MAX_FETCH_M, RAY_STEP_M_V1))

\* the first k passes of the loop over COMPASS_DIRECTIONS.items()
RECURSIVE ExposureLoop(_, _, _)
ExposureLoop(k, sample_points, land) ==
    IF k = 0
    THEN [fetch_km_by_dir |-> << >>, exposure_by_dir |-> << >>]
    ELSE LET prev == ExposureLoop(k - 1, sample_points, land)
             dir == COMPASS_DIRECTIONS[k]
             fetch_distances ==
                 FetchDistances(Len(sample_points), sample_points, dir.deg10, land)
             median2 == np_median2(fetch_distances)
         IN [fetch_km_by_dir |-> (dir.name :> py_round(median2, 20)) @@ prev.fetch_km_by_dir,
             exposure_by_dir |-> (dir.name :> log_exposure(median2)) @@ prev.exposure_by_dir]

compute_route_exposure(route_id, origin_slug, dest_slug, land) ==
    LET origin == PORTS[origin_slug]
        dest == PORTS[dest_slug]
        sample_points == sample_route_points(origin, dest, SAMPLE_POINTS_PER_ROUTE_V1)
        by_dir == ExposureLoop(Len(COMPASS_DIRECTIONS), sample_points, land)
    IN [route_id |-> route_id,
        origin_port |-> origin_slug,
        destination_port |-> dest_slug,
        exposure_by_dir |-> by_dir.exposure_by_dir,
        fetch_km_by_dir |-> by_dir.fetch_km_by_dir,
        avg_exposure |-> mean_rounded(by_dir.exposure_by_dir),
        top_exposure_dirs |-> top_three(by_dir.exposure_by_dir)]

(***************************************************************************)
(* Function-level specification: the signature of one route                *)
(***************************************************************************)
\* land masks: open water; the mainland to the north with the two islands;
\* the mainland alone; land everywhere; one small island in mid-sound
Mainland == { [x0 |-> -1000, x1 |-> 380, y0 |-> 410, y1 |-> 2000],
              [x0 |-> 370, x1 |-> 2000, y0 |-> 520, y1 |-> 2000] }
Islands == { [x0 |-> 60, x1 |-> 260, y0 |-> 150, y1 |-> 320],
             [x0 |-> 540, x1 |-> 700, y0 |-> 60, y1 |-> 130] }
LandMasks ==
    { {},
      Mainland \cup Islands,
      Mainland,
      { [x0 |-> -1000, x1 |-> 2000, y0 |-> -1000, y1 |-> 2000] },
      { [x0 |-> 300, x1 |-> 340, y0 |-> 380, y1 |-> 400] },
      Islands \cup { [x0 |-> 120, x1 |-> 500, y0 |-> 330, y1 |-> 450] } }

InitSig ==
    /\ Idle
    /\ args \in [fn : {"compute_shelter_signature", "compute_route_exposure"},
                 route : {ROUTES[i] : i \in 1..Len(ROUTES)},
                 land : LandMasks]
    /\ ret = [status |-> "none"]

ComputeShelterSignature ==
    /\ ret.status = "none"
    /\ args.fn = "compute_shelter_signature"
    /\ ret' = [status |-> "returned",
               value |-> compute_shelter_signature(args.route.route_id, args.route.origin,
                                                   args.route.dest, args.land)]
    /\ UNCHANGED <<pc, dist_km, land_geom, results, artifact, exit_code, checks, args>>

ComputeRouteExposure ==
    /\ ret.status = "none"
    /\ args.fn = "compute_route_exposure"
    /\ ret' = [status |-> "returned",
               value |-> compute_route_exposure(args.route.route_id, args.route.origin,
                                                args.route.dest, args.land)]
    /\ UNCHANGED <<pc, dist_km, land_geom, results, artifact, exit_code, checks, args>>

NextSig == ComputeShelterSignature \/ ComputeRouteExposure

SpecSig == InitSig /\ [][NextSig]_vars

\* C4: every signature of v1 and v2 has a score map and a distance map keyed
\* by exactly the 16 compass directions, and every score lies in [0, 1].
C4_SixteenDirectionsUnitScores ==
    ret.status = "returned" =>
        LET scores == IF args.fn = "compute_shelter_signature"
                      THEN ret.value.shelter_ratio_by_dir ELSE ret.value.exposure_by_dir
            distances == IF args.fn = "compute_shelter_signature"
                         THEN ret.value.effective_open_fetch_km_by_dir
                         ELSE ret.value.fetch_km_by_dir
        IN /\ Cardinality(DirNames) = 16
           /\ DOMAIN scores = DirNames
           /\ DOMAIN distances = DirNames
           /\ \A d \in DOMAIN scores : 0 <= scores[d] /\ scores[d] <= 1000

\* a v2 signature with a score strictly between 0 and 1, a score of 0 and a
\* score of 1
C4_Witness ==
    /\ ret.status = "returned"
    /\ args.fn = "compute_shelter_signature"
    /\ \E d \in DirNames : /\ ret.value.shelter_ratio_by_dir[d] > 0
                           /\ ret.value.shelter_ratio_by_dir[d] < 1000
    /\ \E d \in DirNames : ret.value.shelter_ratio_by_dir[d] = 0
    /\ \E d \in DirNames : ret.value.shelter_ratio_by_dir[d] = 1000

\* the raw distance of every sample point of the route of args, for one bearing
RawDistances(deg10) ==
    LET sample_points == sample_route_points(PORTS[args.route.origin], PORTS[args.route.dest],
                                             SAMPLE_POINTS_PER_ROUTE)
    IN [p \in 1..Len(sample_points) |->
            cast_ray_to_land(sample_points[p], deg10, args.land, MAX_RAY_M, RAY_STEP_M)]

ShelteredCount(deg10) ==
    LET raw == RawDistances(deg10)
    IN Cardinality({p \in 1..SAMPLE_POINTS_PER_ROUTE : raw[p] <= SHELTER_THRESHOLD_M})

\* C9: under the threshold model the score of every direction is
\* 1 - (samples with raw distance <= threshold) / (sample count), a distance
\* equal to the threshold counting as sheltered.
C9_ScoreIsOpenFraction ==
    (ret.status = "returned" /\ args.fn = "compute_shelter_signature") =>
        \A i \in 1..Len(COMPASS_DIRECTIONS) :
            LET dir == COMPASS_DIRECTIONS[i]
            IN SAMPLE_POINTS_PER_ROUTE * ret.value.shelter_ratio_by_dir[dir.name]
                 = 1000 * (SAMPLE_POINTS_PER_ROUTE - ShelteredCount(dir.deg10))

\* a direction in which some sample lies exactly at the threshold and some
\* sample is open, one in which every sample is sheltered, one in which none is
C9_Witness ==
    /\ ret.status = "returned" /\ args.fn = "compute_shelter_signature"
    /\ \E i \in 1..Len(COMPASS_DIRECTIONS) :
          LET raw == RawDistances(COMPASS_DIRECTIONS[i].deg10)
          IN /\ \E p \in 1..Len(raw) : raw[p] = SHELTER_THRESHOLD_M
             /\ \E p \in 1..Len(raw) : raw[p] > SHELTER_THRESHOLD_M
    /\ \E d \in DirNames : ret.value.shelter_ratio_by_dir[d] = 0
    /\ \E d \in DirNames : ret.value.shelter_ratio_by_dir[d] = 1000

\* position of a direction in the compass enumeration N, NNE, ..., NNW
CompassIndex(name) == CHOOSE i \in 1..Len(COMPASS_DIRECTIONS) : COMPASS_DIRECTIONS[i].name = name

\* C10: the top-3 list holds 3 distinct directions in descending score order,
\* no direction outside it scores strictly higher than one inside it, and of
\* two directions with equal score the one earlier in the compass
\* enumeration is ranked first.
C10_TopThree ==
    ret.status = "returned" =>
        LET scores == IF args.fn = "compute_shelter_signature"
                      THEN ret.value.shelter_ratio_by_dir ELSE ret.value.exposure_by_dir
            top == ret.value.top_exposure_dirs
            listed == {top[k] : k \in 1..Len(top)}
        IN /\ Len(top) = 3
           /\ listed \subseteq DirNames
           /\ Cardinality(listed) = 3
           /\ \A i, j \in 1..Len(top) :
                 i < j => /\ scores[top[i]] >= scores[top[j]]
                          /\ scores[top[i]] = scores[top[j]] =>
                                CompassIndex(top[i]) < CompassIndex(top[j])
           /\ \A d \in DirNames \ listed : \A t \in listed :
                 /\ scores[d] <= scores[t]
                 /\ scores[d] = scores[t] => CompassIndex(t) < CompassIndex(d)

\* a top-3 list that is not the first three compass directions, with a tie
\* between a listed direction and an unlisted one
C10_Witness ==
    /\ ret.status = "returned"
    /\ ret.value.top_exposure_dirs # << "N", "NNE", "NE" >>
    /\ LET scores == IF args.fn = "compute_shelter_signature"
                      THEN ret.value.shelter_ratio_by_dir ELSE ret.value.exposure_by_dir
           top == ret.value.top_exposure_dirs
       IN \E d \in DirNames \ {top[k] : k \in 1..Len(top)} : scores[d] = scores[top[3]]

(***************************************************************************)
(* Validators                                                              *)
(***************************************************************************)
\* EXPECTED_DISTANCES in insertion order (km)
EXPECTED_DISTANCES ==
    << [origin |-> "woods-hole", dest |-> "vineyard-haven", min |-> 8,  max |-> 12],
       [origin |-> "woods-hole", dest |-> "oak-bluffs",     min |-> 8,  max |-> 14],
       [origin |-> "hyannis",    dest |-> "nantucket",      min |-> 40, max |-> 48],
       [origin |-> "hyannis",    dest |-> "vineyard-haven", min |-> 35, max |-> 45] >>

\* the loop of validate_route_distances as if all_pass were overwritten by
\* the status of the pair at hand
DistanceLoopLastWins(k, dist) ==
    IF k = 0 THEN TRUE
    ELSE EXPECTED_DISTANCES[k].min <= dist[k] /\ dist[k] <= EXPECTED_DISTANCES[k].max

\* all_pass after the first k passes of the loop of validate_route_distances;
\* dist[k] is haversine_km of the k-th pair
RECURSIVE DistanceLoop(_, _)
DistanceLoop(k, dist) ==
    IF k = 0 THEN TRUE
    ELSE LET all_pass == DistanceLoop(k - 1, dist)
             expected == EXPECTED_DISTANCES[k]
             status == IF expected.min <= dist[k] /\ dist[k] <= expected.max
                       THEN "PASS" ELSE "FAIL"
         IN IF status = "FAIL" THEN FALSE ELSE all_pass

validate_route_distances(dist) == DistanceLoop(Len(EXPECTED_DISTANCES), dist)

\* next((r for r in results if r['route_id'] == route_id), None): the index
\* of the first match, 0 for None
FindRoute(rs, route_id) ==
    IF \E i \in 1..Len(rs) : rs[i].route_id = route_id
    THEN CHOOSE i \in 1..Len(rs) :
            /\ rs[i].route_id = route_id
            /\ \A j \in 1..(i - 1) : rs[j].route_id # route_id
    ELSE 0

\* The values a of hy_nan_ratio, in thousandths, for which the double
\* a/1000 - (a - 200)/1000 is smaller than the double 0.2 (IEEE 754 binary64,
\* round to nearest even; e.g. 0.7 - 0.5 = 0.19999999999999996).  For every
\* other pair of thousandths the double comparison agrees with the exact one.
TieRoundsBelowMargin ==
    (204..214) \cup (235..242) \cup (282..301) \cup (344..371) \cup (407..434)
    \cup (469..481) \cup (563..606) \cup (688..762) \cup (813..887) \cup (938..1000)

\* "diff = hy_nan_ratio - wh_vh_ratio; check = diff >= 0.2" on doubles
diff_ge_margin(hy_nan_ratio, wh_vh_ratio) ==
    IF hy_nan_ratio - wh_vh_ratio = 200
    THEN hy_nan_ratio \notin TieRoundsBelowMargin
    ELSE hy_nan_ratio - wh_vh_ratio >= 200

\* v2 validate_exposure_ordering; ratios in thousandths
validate_exposure_ordering(rs) ==
    LET hy_nan == FindRoute(rs, "hy-nan-ssa")
        wh_vh == FindRoute(rs, "wh-vh-ssa")
    IN IF hy_nan = 0 \/ wh_vh = 0
       THEN FALSE
       ELSE diff_ge_margin(rs[hy_nan].mean_shelter_ratio, rs[wh_vh].mean_shelter_ratio)

\* route_exposures.get((origin, dest), 0) of v1 validate_results: the dict is
\* filled in results order, so the last result of the pair wins
RouteExposure(rs, origin, dest) ==
    LET matches == {i \in 1..Len(rs) : rs[i].origin_port = origin /\ rs[i].destination_port = dest}
    IN IF matches = {} THEN 0
       ELSE rs[CHOOSE i \in matches : \A j \in matches : j <= i].avg_exposure

\* v1 validate_results: check1
validate_results(rs) ==
    LET hy_nan == RouteExposure(rs, "hyannis", "nantucket")
        wh_vh == RouteExposure(rs, "woods-hole", "vineyard-haven")
    IN hy_nan > wh_vh

(***************************************************************************)
(* v2 main                                                                 *)
(***************************************************************************)
\* main as if the result of validate_exposure_ordering were not acted upon
main_ignores_ordering(ok) == "save"

\* "if not validate_exposure_ordering(results): ... sys.exit(1)"
main_after_ordering(ok) == IF ok THEN "save" ELSE "exited"

\* "if not validate_route_distances(): ... sys.exit(1)"
main_after_distances(ok) == IF ok THEN "load" ELSE "exited"

\* great-circle distances a port table can give for the k-th pair: just
\* outside and just inside either end of its window
DistanceChoices(k) ==
    { EXPECTED_DISTANCES[k].min - 1, EXPECTED_DISTANCES[k].min,
      EXPECTED_DISTANCES[k].max, EXPECTED_DISTANCES[k].max + 1 }

\* land masks the shapefile on disk can hold
MainLandMasks ==
    { Mainland \cup Islands,
      Mainland }

InitV2 ==
    /\ pc = "start"
    /\ dist_km \in {d \in [1..Len(EXPECTED_DISTANCES) -> 0..60] :
                        \A k \in 1..Len(EXPECTED_DISTANCES) : d[k] \in DistanceChoices(k)}
    /\ land_geom = [status |-> "unset"]
    /\ results = << >>
    /\ artifact \in {[status |-> "absent"], [status |-> "stale"]}
    /\ exit_code = "running"
    /\ checks = [distances |-> "none", ordering |-> "none"]
    /\ args = [fn |-> "main"]
    /\ ret = [status |-> "none"]

ValidateRouteDistances ==
    /\ pc = "start"
    /\ LET ok == validate_route_distances(dist_km)
       IN /\ checks' = [checks EXCEPT !.distances = IF ok THEN "pass" ELSE "fail"]
          /\ pc' = main_after_distances(ok)
          /\ exit_code' = IF pc' = "exited" THEN "exit 1" ELSE exit_code
    /\ UNCHANGED <<dist_km, land_geom, results, artifact, args, ret>>

LoadLandMask ==
    /\ pc = "load"
    /\ \E land \in MainLandMasks : land_geom' = [status |-> "loaded", geom |-> land]
    /\ pc' = "compute"
    /\ UNCHANGED <<dist_km, results, artifact, exit_code, checks, args, ret>>

\* load_land_mask raises FileNotFoundError
LoadLandMaskNotFound ==
    /\ pc = "load"
    /\ pc' = "exited"
    /\ exit_code' = "exit 1"
    /\ UNCHANGED <<dist_km, land_geom, results, artifact, checks, args, ret>>

\* one pass of "for route in ROUTES"
ComputeSignature ==
    /\ pc = "compute"
    /\ Len(results) < Len(ROUTES)
    /\ LET route == ROUTES[Len(results) + 1]
           signature == compute_shelter_signature(route.route_id, route.origin, route.dest,
                                                  land_geom.geom)
       IN results' = Append(results, signature)
    /\ pc' = IF Len(results') = Len(ROUTES) THEN "validate" ELSE "compute"
    /\ UNCHANGED <<dist_km, land_geom, artifact, exit_code, checks, args, ret>>

ValidateExposureOrdering ==
    /\ pc = "validate"
    /\ LET ok == validate_exposure_ordering(results)
       IN /\ checks' = [checks EXCEPT !.ordering = IF ok THEN "pass" ELSE "fail"]
          /\ pc' = main_after_ordering(ok)
          /\ exit_code' = IF pc' = "exited" THEN "exit 1" ELSE exit_code
    /\ UNCHANGED <<dist_km, land_geom, results, artifact, args, ret>>

\* open(OUTPUT_FILE, 'w'); json.dump(output, f)
SaveOutput ==
    /\ pc = "save"
    /\ artifact' = [status |-> "written", version |-> "2.0",
                    routes |-> {results[i].route_id : i \in 1..Len(results)}]
    /\ pc' = "done"
    /\ exit_code' = "exit 0"
    /\ UNCHANGED <<dist_km, land_geom, results, checks, args, ret>>

NextV2 ==
    \/ ValidateRouteDistances
    \/ LoadLandMask
    \/ LoadLandMaskNotFound
    \/ ComputeSignature
    \/ ValidateExposureOrdering
    \/ SaveOutput

SpecV2 == InitV2 /\ [][NextV2]_vars

\* C1: when validate_exposure_ordering reports failure the run ends without
\* writing the artifact; the artifact is written only after the check passed.
C1_NoArtifactAfterOrderingFailure ==
    /\ checks.ordering = "fail" =>
          /\ pc = "exited"
          /\ exit_code = "exit 1"
          /\ artifact.status # "written"
    /\ (pc = "save" \/ artifact.status = "written") => checks.ordering = "pass"

\* all ten signatures computed, the ordering check failed, the run is over
C1_Witness ==
    /\ Len(results) = Len(ROUTES)
    /\ checks.ordering = "fail"
    /\ pc = "exited"

\* the k-th pair of EXPECTED_DISTANCES lies outside its window
OutsideWindow(k) ==
    dist_km[k] < EXPECTED_DISTANCES[k].min \/ dist_km[k] > EXPECTED_DISTANCES[k].max

\* C2: when any one pair of EXPECTED_DISTANCES lies outside its inclusive
\* window, validate_route_distances fails whatever the other pairs are, and
\* main ends before the land mask is loaded, before any signature is
\* computed and before the artifact is written.
C2_DistanceFailureIsFatal ==
    (\E k \in 1..Len(EXPECTED_DISTANCES) : OutsideWindow(k)) =>
        /\ checks.distances \in {"none", "fail"}
        /\ pc \in {"start", "exited"}
        /\ pc = "exited" => exit_code = "exit 1"
        /\ land_geom.status = "unset"
        /\ results = << >>
        /\ artifact.status # "written"

\* exactly one pair outside its window, and not the last one examined; the
\* run has ended on the distance check
C2_Witness ==
    /\ OutsideWindow(2)
    /\ \A k \in 1..Len(EXPECTED_DISTANCES) : k # 2 => ~OutsideWindow(k)
    /\ checks.distances = "fail"
    /\ pc = "exited"

(***************************************************************************)
(* v1 main                                                                 *)
(***************************************************************************)
InitV1 ==
    /\ pc = "load"
    /\ dist_km = << >>
    /\ land_geom = [status |-> "unset"]
    /\ results = << >>
    /\ artifact \in {[status |-> "absent"], [status |-> "stale"]}
    /\ exit_code = "running"
    /\ checks = [distances |-> "none", ordering |-> "none"]
    /\ args = [fn |-> "main"]
    /\ ret = [status |-> "none"]

LoadLandMaskV1 ==
    /\ pc = "load"
    /\ \E land \in LandMasks : land_geom' = [status |-> "loaded", geom |-> land]
    /\ pc' = "compute"
    /\ UNCHANGED <<dist_km, results, artifact, exit_code, checks, args, ret>>

\* load_land_mask raises FileNotFoundError: main returns
LoadLandMaskNotFoundV1 ==
    /\ pc = "load"
    /\ pc' = "exited"
    /\ exit_code' = "return"
    /\ UNCHANGED <<dist_km, land_geom, results, artifact, checks, args, ret>>

\* one pass of "for route in ROUTES"
ComputeExposureV1 ==
    /\ pc = "compute"
    /\ Len(results) < Len(ROUTES)
    /\ LET route == ROUTES[Len(results) + 1]
           exposure == compute_route_exposure(route.route_id, route.origin, route.dest,
                                              land_geom.geom)
       IN results' = Append(results, exposure)
    /\ pc' = IF Len(results') = Len(ROUTES) THEN "validate" ELSE "compute"
    /\ UNCHANGED <<dist_km, land_geom, artifact, exit_code, checks, args, ret>>

\* "validate_results(results)": the value returned is discarded
ValidateResultsV1 ==
    /\ pc = "validate"
    /\ LET ok == validate_results(results)
       IN checks' = [checks EXCEPT !.ordering = IF ok THEN "pass" ELSE "fail"]
    /\ pc' = "save"
    /\ UNCHANGED <<dist_km, land_geom, results, artifact, exit_code, args, ret>>

SaveOutputV1 ==
    /\ pc = "save"
    /\ artifact' = [status |-> "written", version |-> "1.0",
                    routes |-> {results[i].route_id : i \in 1..Len(results)}]
    /\ pc' = "done"
    /\ exit_code' = "return"
    /\ UNCHANGED <<dist_km, land_geom, results, checks, args, ret>>

NextV1 ==
    \/ LoadLandMaskV1
    \/ LoadLandMaskNotFoundV1
    \/ ComputeExposureV1
    \/ ValidateResultsV1
    \/ SaveOutputV1

SpecV1 == InitV1 /\ [][NextV1]_vars

\* C3: when the ordering check of validate_results fails, v1 main ends
\* without producing or overwriting route_exposure.json.
C3_NoArtifactAfterValidationFailureV1 ==
    checks.ordering = "fail" => (pc # "save" /\ artifact.status # "written")

(***************************************************************************)
(* Function-level specification: the ordering validators                   *)
(***************************************************************************)
\* aggregate scores of the two reference routes, in thousandths
AggregateChoices == {100 * k : k \in 0..10}

\* a result as the validators read it: v2 reads route_id and
\* mean_shelter_ratio, v1 reads the port pair and avg_exposure
ResultOf(route, aggregate) ==
    [route_id |-> route.route_id,
     origin_port |-> route.origin,
     destination_port |-> route.dest,
     mean_shelter_ratio |-> aggregate,
     avg_exposure |-> aggregate]

\* a results list in ROUTES order holding wh-vh-ssa (ROUTES[1]) and
\* hy-nan-ssa (ROUTES[5]) when asked to, around one other route
ResultsWith(has_wh_vh, wh_vh, has_hy_nan, hy_nan, other) ==
    (IF has_wh_vh THEN << ResultOf(ROUTES[1], wh_vh) >> ELSE << >>)
    \o << ResultOf(ROUTES[3], other) >>
    \o (IF has_hy_nan THEN << ResultOf(ROUTES[5], hy_nan) >> ELSE << >>)

InitValidate ==
    /\ Idle
    /\ args \in [fn : {"validate_exposure_ordering", "validate_results"},
                 has_wh_vh : BOOLEAN,
                 wh_vh : AggregateChoices,
                 has_hy_nan : BOOLEAN,
                 hy_nan : AggregateChoices]
    /\ ret = [status |-> "none"]

ArgResults == ResultsWith(args.has_wh_vh, args.wh_vh, args.has_hy_nan, args.hy_nan, 500)

CallValidateExposureOrdering ==
    /\ ret.status = "none"
    /\ args.fn = "validate_exposure_ordering"
    /\ ret' = [status |-> "returned", value |-> validate_exposure_ordering(ArgResults)]
    /\ UNCHANGED <<pc, dist_km, land_geom, results, artifact, exit_code, checks, args>>

CallValidateResults ==
    /\ ret.status = "none"
    /\ args.fn = "validate_results"
    /\ ret' = [status |-> "returned", value |-> validate_results(ArgResults)]
    /\ UNCHANGED <<pc, dist_km, land_geom, results, artifact, exit_code, checks, args>>

NextValidate == CallValidateExposureOrdering \/ CallValidateResults

SpecValidate == InitValidate /\ [][NextValidate]_vars

\* C11: validate_exposure_ordering passes exactly when the aggregate of
\* hy-nan-ssa minus the aggregate of wh-vh-ssa is at least 0.2, a difference
\* equal to 0.2 passing (0.8 and 0.5 pass, 0.6 and 0.5 fail).
C11_PassesIffMarginMet ==
    (/\ ret.status = "returned"
     /\ args.fn = "validate_exposure_ordering"
     /\ args.has_hy_nan /\ args.has_wh_vh) =>
        (ret.value <=> (args.hy_nan - args.wh_vh >= 200))

\* C12: a validator whose reference route is absent from the results
\* reports failure, in v2 (by route id) and in v1 (by port pair).
C12_MissingReferenceFails ==
    (ret.status = "returned" /\ (~args.has_hy_nan \/ ~args.has_wh_vh)) =>
        ret.value = FALSE

\* C13: with a land mask that contains no point, every one of the 16 scores
\* of every route is 1 under the threshold model and under the log-fetch
\* model, and every representative distance is the range cap.
C13_OpenWaterScoresOne ==
    (ret.status = "returned" /\ args.fn \in {"compute_shelter_signature", "compute_route_exposure"}
        /\ args.land = {}) =>
        IF args.fn = "compute_shelter_signature"
        THEN \A d \in DirNames :
                /\ ret.value.shelter_ratio_by_dir[d] = 1000
                /\ 10 * ret.value.effective_open_fetch_km_by_dir[d] = MAX_RAY_M
        ELSE \A d \in DirNames :
                /\ ret.value.exposure_by_dir[d] = 1000
                /\ 10 * ret.value.fetch_km_by_dir[d] = MAX_FETCH_M

\* a v2 signature computed over the empty land mask
C13_Witness ==
    /\ ret.status = "returned"
    /\ args.fn = "compute_shelter_signature"
    /\ args.land = {}
    /\ DOMAIN ret.value.shelter_ratio_by_dir = DirNames
    /\ ret.value.mean_shelter_ratio = 1000

(***************************************************************************)
(* Function-level specification: bearings                                  *)
(***************************************************************************)
\* a patch of land around the planar point (i, j), holding no other point
\* of the integer grid
Patch(i, j) == { [x0 |-> i - 1, x1 |-> i + 1, y0 |-> j - 1, y1 |-> j + 1] }

\* the half-plane of land north of the line y = shore
NorthOf(shore) == { [x0 |-> -10000, x1 |-> 10000, y0 |-> shore, y1 |-> 10000] }

CardinalBearings == {0, 900, 1800, 2700}

\* ends of an east-west route, on the line y = 0
EastWestEnds == {<<0, 300>>, <<300, 0>>, <<0, 100>>}

\* the shore north of the route: every 10 m up to one step past the threshold
ShoreChoices == {10 * k : k \in 0..((SHELTER_THRESHOLD_M + RAY_STEP_M) \div 10)}

InitBearing ==
    /\ Idle
    /\ \/ args \in [fn : {"cast_ray_to_land"},
                    point : {[x |-> 0, y |-> 0, den |-> 1]},
                    deg10 : CardinalBearings,
                    patch : (-RayExtent..RayExtent) \X (-RayExtent..RayExtent),
                    max_distance_m : 1..MaxRange,
                    step_m : 1..MaxStep]
       \/ args \in [fn : {"compute_shelter_signature"},
                    ends : EastWestEnds,
                    shore : ShoreChoices]
    /\ ret = [status |-> "none"]

CastCardinalRay ==
    /\ ret.status = "none"
    /\ args.fn = "cast_ray_to_land"
    /\ ret' = [status |-> "returned",
               value |-> cast_ray_to_land(args.point, args.deg10,
                                          Patch(args.patch[1], args.patch[2]),
                                          args.max_distance_m, args.step_m)]
    /\ UNCHANGED <<pc, dist_km, land_geom, results, artifact, exit_code, checks, args>>

EastWestOrigin == [x |-> args.ends[1], y |-> 0, den |-> 1]
EastWestDest == [x |-> args.ends[2], y |-> 0, den |-> 1]

ComputeEastWestSignature ==
    /\ ret.status = "none"
    /\ args.fn = "compute_shelter_signature"
    /\ ret' = [status |-> "returned",
               value |-> ShelterSignatureOf("a-b", "a", "b", EastWestOrigin, EastWestDest,
                                            NorthOf(args.shore))]
    /\ UNCHANGED <<pc, dist_km, land_geom, results, artifact, exit_code, checks, args>>

NextBearing == CastCardinalRay \/ ComputeEastWestSignature

SpecBearing == InitBearing /\ [][NextBearing]_vars

\* the unit vector of a cardinal bearing under the compass convention
CompassUnit(deg10) ==
    IF deg10 = 0 THEN <<0, 1>>
    ELSE IF deg10 = 900 THEN <<1, 0>>
    ELSE IF deg10 = 1800 THEN <<0, -1>>
    ELSE <<-1, 0>>

\* the increments, among those the caster tests, that fall on the patch when
\* the ray moves along CompassUnit alone
PatchHits ==
    {k \in 1..RayExtent :
        /\ (k - 1) * args.step_m < args.max_distance_m
        /\ args.patch[1] = args.point.x + k * args.step_m * CompassUnit(args.deg10)[1]
        /\ args.patch[2] = args.point.y + k * args.step_m * CompassUnit(args.deg10)[2]}

\* a cardinal ray finds the patch exactly when the patch lies on the compass
\* axis of its bearing, at one of the increments
CardinalRaysFollowCompass ==
    (ret.status = "returned" /\ args.fn = "cast_ray_to_land") =>
        IF PatchHits = {}
        THEN ret.value = args.max_distance_m
        ELSE \E k \in PatchHits : ret.value = k * args.step_m

\* the raw distance north of every sample point of the east-west route
NorthDistances ==
    LET sample_points == sample_route_points(EastWestOrigin, EastWestDest, SAMPLE_POINTS_PER_ROUTE)
    IN [p \in 1..Len(sample_points) |->
            cast_ray_to_land(sample_points[p], 0, NorthOf(args.shore), MAX_RAY_M, RAY_STEP_M)]

\* C14 as stated: cardinal bearings follow the compass, and for an
\* east-west route whose only land is the half-plane north of it, at a
\* distance no greater than the shelter threshold, every north ray reports
\* less than the threshold, the N score is 0 and the S score is 1.
C14_NorthShoreShelters ==
    /\ CardinalRaysFollowCompass
    /\ (/\ ret.status = "returned" /\ args.fn = "compute_shelter_signature"
        /\ args.shore <= SHELTER_THRESHOLD_M) =>
            /\ \A p \in 1..SAMPLE_POINTS_PER_ROUTE : NorthDistances[p] < SHELTER_THRESHOLD_M
            /\ ret.value.shelter_ratio_by_dir["N"] = 0
            /\ ret.value.shelter_ratio_by_dir["S"] = 1000

\* C14 amended: the same, for a shore that lies more than one ray step
\* short of the shelter threshold.
C14_NorthShoreSheltersWithinStep ==
    /\ CardinalRaysFollowCompass
    /\ (/\ ret.status = "returned" /\ args.fn = "compute_shelter_signature"
        /\ args.shore + RAY_STEP_M < SHELTER_THRESHOLD_M) =>
            /\ \A p \in 1..SAMPLE_POINTS_PER_ROUTE : NorthDistances[p] < SHELTER_THRESHOLD_M
            /\ ret.value.shelter_ratio_by_dir["N"] = 0
            /\ ret.value.shelter_ratio_by_dir["S"] = 1000

\* a signature of an east-west route with the shore some way north of it
\* and more than one step short of the threshold
C14_Witness ==
    /\ ret.status = "returned" /\ args.fn = "compute_shelter_signature"
    /\ args.shore > 0
    /\ args.shore + RAY_STEP_M < SHELTER_THRESHOLD_M
    /\ ret.value.shelter_ratio_by_dir["N"] = 0
    /\ ret.value.shelter_ratio_by_dir["S"] = 1000

(***************************************************************************)
(* The representative distance                                             *)
(***************************************************************************)
\* the raw fetch distance of every sample point of the v1 call in args
FetchDistancesOf(deg10) ==
    LET sample_points == sample_route_points(PORTS[args.route.origin], PORTS[args.route.dest],
                                             SAMPLE_POINTS_PER_ROUTE_V1)
    IN [p \in 1..Len(sample_points) |->
            compute_fetch_distance(sample_points[p], deg10, args.land, MAX_FETCH_M, RAY_STEP_M_V1)]

\* the least value of raw that at least k entries of raw do not exceed
LeastCovering(raw, k) ==
    LET vals == {raw[p] : p \in DOMAIN raw}
        covers(v) == Cardinality({p \in DOMAIN raw : raw[p] <= v}) >= k
    IN CHOOSE v \in vals : covers(v) /\ \A w \in vals : covers(w) => v <= w

\* twice the median of an even number of raw distances: the sum of the two
\* middle values
TwiceMedian(raw) ==
    LET n == Cardinality(DOMAIN raw)
    IN LeastCovering(raw, n \div 2) + LeastCovering(raw, n \div 2 + 1)

\* in v1 the reported distance is the median of the raw distances and the
\* score is the log-fetch score of that median
V1UsesMedian ==
    (ret.status = "returned" /\ args.fn = "compute_route_exposure") =>
        \A i \in 1..Len(COMPASS_DIRECTIONS) :
            LET dir == COMPASS_DIRECTIONS[i]
                median2 == TwiceMedian(FetchDistancesOf(dir.deg10))
            IN /\ 20 * ret.value.fetch_km_by_dir[dir.name] = median2
               /\ ret.value.exposure_by_dir[dir.name] = log_exposure(median2)

ReversedSignature ==
    IF args.fn = "compute_shelter_signature"
    THEN compute_shelter_signature(args.route.route_id, args.route.dest, args.route.origin,
                                   args.land)
    ELSE compute_route_exposure(args.route.route_id, args.route.dest, args.route.origin,
                                args.land)

C17_ScoreAndDistanceAgree ==
    (ret.status = "returned" /\ args.fn = "compute_shelter_signature") =>
        \A d \in DirNames :
            LET score == ret.value.shelter_ratio_by_dir[d]
                reported == ret.value.effective_open_fetch_km_by_dir[d]
            IN /\ score < 500 => 10 * reported <= SHELTER_THRESHOLD_M
               /\ score > 500 => 10 * reported > SHELTER_THRESHOLD_M

\* a v2 signature with a direction scored strictly between 0 and 0.5, one
\* strictly between 0.5 and 1, and one scored above 0.5 in which some sample
\* is sheltered
C17_Witness ==
    /\ ret.status = "returned" /\ args.fn = "compute_shelter_signature"
    /\ \E d \in DirNames :
            /\ ret.value.shelter_ratio_by_dir[d] > 0
            /\ ret.value.shelter_ratio_by_dir[d] < 500
            /\ 10 * ret.value.effective_open_fetch_km_by_dir[d] <= SHELTER_THRESHOLD_M
    /\ \E d \in DirNames :
            /\ ret.value.shelter_ratio_by_dir[d] > 500
            /\ ret.value.shelter_ratio_by_dir[d] < 1000
            /\ 10 * ret.value.effective_open_fetch_km_by_dir[d] > SHELTER_THRESHOLD_M

====
